---- MODULE Spec2Model ----
(***************************************************************************)
(* MicroShop browser client: the Products add-to-cart handler, the Cart    *)
(* view (load/merge, removeItem, placeOrder with its order-status poll,    *)
(* unmount cleanup, handleRetryFromCart), the createPayment request        *)
(* wrapper, the App session guard (token validity, expiry timer, liveness  *)
(* tick, resume handlers, login) and the MyOrders view.  Collaborating     *)
(* services are the environment: every response is drawn from a bounded    *)
(* set.                                                                    *)
(***************************************************************************)
EXTENDS Integers, Sequences, FiniteSets, Bags, TLC

\* ---------------------------------------------------------------- bounds
MaxProduct == 2      \* product ids 1..MaxProduct
MaxClicks == 2       \* add-to-cart clicks
MaxOrders == 2       \* POST /orders calls answered with a JSON body
MaxFetch == 3        \* status fetches started per order
MaxServerItems == 2  \* items in one GET /cart response
MaxTracked == 1      \* orders one GET /orders response lists
MaxSweeps == 2       \* ticks of the order-history sweep
MaxRetries == 2      \* clicks on a retry button of the order-history view
MaxSteps == 3        \* clock advances of ClockStepMs each
MaxLogins == 1       \* doLogin submissions
MaxHist == 2         \* entries of the session history
MaxSignOuts == 2     \* logout() calls told apart by the signOuts counter
MaxExp == 3          \* exp claims 0..MaxExp handed to isTokenValid
MaxParts == 4        \* dot-separated parts of a token handed to isTokenValid

ProductIds == 1..MaxProduct
Undef == 0                       \* JavaScript undefined / null for ids and handles
OrderIds == 0..MaxOrders         \* 0: order.id undefined (error body)
TimerIds == 1..MaxOrders
TrackedIds == 1..MaxTracked

\* ---------------------------------------------------------------- cart items
CatalogPrice(p) == 10 * p

Item(p, q, pr) == [product_id |-> p, quantity |-> q, price |-> pr]

\* entry pushed by the add-to-cart handler: quantity 1, catalog price
LocalEntry(p) == Item(p, 1, CatalogPrice(p))

\* quantities and price changes the cart service may report for a line
ServerQuantities == {2}
PriceDrift == {5}
ServerItemSet ==
  { Item(p, q, CatalogPrice(p) + d) : p \in ProductIds, q \in ServerQuantities,
                                      d \in PriceDrift }

RECURSIVE SeqsUpTo(_, _)
SeqsUpTo(S, n) ==
  IF n = 0 THEN { << >> }
  ELSE LET shorter == SeqsUpTo(S, n - 1)
       IN shorter \cup { Append(s, x) : s \in { t \in shorter : Len(t) = n - 1 }, x \in S }

\* GET /cart bodies: the cart service keeps one line per product
ServerCarts ==
  { s \in SeqsUpTo(ServerItemSet, MaxServerItems) :
      \A i, j \in 1..Len(s) : i # j => s[i].product_id # s[j].product_id }

\* localStorage "cart" key: absent, or the JSON text of an item array
NoStore == [present |-> FALSE, items |-> << >>]
Stored(items) == [present |-> TRUE, items |-> items]

\* JSON.parse(localStorage.getItem("cart") || "[]")
ReadLocalCart(store) == IF store.present THEN store.items ELSE << >>

\* existing.push(entry); localStorage.setItem("cart", JSON.stringify(existing))
PushLocalOmitted(store, p) == store
PushLocal(store, p) == Stored(Append(ReadLocalCart(store), LocalEntry(p)))

\* contents a previous visit of the Cart view left behind (removeItem
\* persists the displayed cart, server lines included)
ExampleLocal == << Item(1, 5, CatalogPrice(1)), Item(2, 1, CatalogPrice(2)) >>
InitLocalStores == { NoStore, Stored(ExampleLocal) }

\* ---------------------------------------------------------------- merge
ServerIdSet(serverItems) == { serverItems[i].product_id : i \in 1..Len(serverItems) }

\* for (const li of local) if (!serverIds.has(li.product_id)) merged.push(li)
RECURSIVE MergeLoop(_, _, _, _)
MergeLoop(merged, local, serverIds, k) ==
  IF k > Len(local) THEN merged
  ELSE MergeLoop(IF local[k].product_id \notin serverIds
                   THEN Append(merged, local[k]) ELSE merged,
                 local, serverIds, k + 1)

MergeLocalFirst(serverItems, local) ==
  MergeLoop(local, serverItems, { local[i].product_id : i \in 1..Len(local) }, 1)
Merge(serverItems, local) ==
  MergeLoop(serverItems, local, ServerIdSet(serverItems), 1)

\* ---------------------------------------------------------------- createPayment
\* response texts of POST /payment and what JSON.parse makes of them
BodyTexts == { "", "{\"result\":\"SUCCESS\"}", "{\"result\":\"PENDING\"}",
               "{\"detail\":\"declined\"}", "null", "Accepted" }

JNull == [tag |-> "null", result |-> "", raw |-> ""]
JObj(result) == [tag |-> "object", result |-> result, raw |-> ""]
JRaw(text) == [tag |-> "object", result |-> "", raw |-> text]

Parseable(text) == text \in { "{\"result\":\"SUCCESS\"}", "{\"result\":\"PENDING\"}",
                              "{\"detail\":\"declined\"}", "null" }

JsonParse(text) ==
  CASE text = "{\"result\":\"SUCCESS\"}" -> JObj("SUCCESS")
    [] text = "{\"result\":\"PENDING\"}" -> JObj("PENDING")
    [] text = "{\"detail\":\"declined\"}" -> JObj("")
    [] text = "null" -> JNull

Truthy(v) == v.tag # "null"

\* try { parsed = bodyText ? JSON.parse(bodyText) : null } catch (_) { parsed = { raw: bodyText } }
ParseBody(text) ==
  IF text = "" THEN JNull
  ELSE IF Parseable(text) THEN JsonParse(text) ELSE JRaw(text)

StatusCodes == {200, 201, 202, 204, 400, 402, 500}
NetworkError == 0       \* fetch rejected: no response, no status code

Returned(v) == [kind |-> "return", value |-> v, status |-> 0]
Thrown(code) == [kind |-> "throw", value |-> JNull, status |-> code]
NoCall == [kind |-> "none", value |-> JNull, status |-> 0]

SynthPending == JObj("PENDING")

CreatePaymentThrowOn202(status, text) ==
  IF status = 200 THEN Returned(ParseBody(text)) ELSE Thrown(status)
CreatePayment(status, text) ==
  IF status = NetworkError THEN Thrown(NetworkError)
  ELSE IF status = 200 THEN Returned(ParseBody(text))
  ELSE IF status = 202
    THEN Returned(IF Truthy(ParseBody(text)) THEN ParseBody(text) ELSE SynthPending)
  ELSE Thrown(status)

\* ---------------------------------------------------------------- utils/auth: the token
MsPerSec == 1000     \* claims.exp is in seconds, Date.now() in milliseconds

\* what localStorage.getItem("token") yields, by what parseJwt can make of it:
\* null, the empty string, or a text of so many dot-separated parts whose
\* second part decodes to garbage, to claims without exp, or to claims with exp
NullToken == [kind |-> "null", parts |-> 0, payload |-> "", exp |-> 0]
EmptyToken == [kind |-> "empty", parts |-> 1, payload |-> "", exp |-> 0]
TokenText(parts, payload, exp) ==
  [kind |-> "text", parts |-> parts, payload |-> payload, exp |-> exp]
Jwt(exp) == TokenText(3, "exp", exp)

\* if (token) / if (!token)
TokenTruthy(token) == token.kind = "text"

NoClaims == [tag |-> "null", hasExp |-> FALSE, exp |-> 0]
Claims(hasExp, exp) == [tag |-> "object", hasExp |-> hasExp, exp |-> exp]

\* split('.'), atob and JSON.parse inside try; every throw yields null
ParseJwt(token) ==
  IF token.kind = "null" THEN NoClaims
  ELSE IF token.parts # 3 THEN NoClaims
  ELSE IF token.payload = "garbage" THEN NoClaims
  ELSE IF token.payload = "noexp" THEN Claims(FALSE, 0)
  ELSE Claims(TRUE, token.exp)

\* !claims || !claims.exp
NoUsableExp(claims) == claims.tag = "null" \/ ~claims.hasExp \/ claims.exp = 0

IsTokenValidInclusive(token, nowMs) ==
  /\ TokenTruthy(token)
  /\ ~NoUsableExp(ParseJwt(token))
  /\ nowMs <= ParseJwt(token).exp * MsPerSec
IsTokenValid(token, nowMs) ==
  IF ~TokenTruthy(token) THEN FALSE
  ELSE IF NoUsableExp(ParseJwt(token)) THEN FALSE
  ELSE nowMs < ParseJwt(token).exp * MsPerSec

\* the tokens and clock readings isTokenValid is applied to
TokenSamples ==
  {NullToken, EmptyToken}
    \cup { TokenText(parts, payload, 0) :
             parts \in 1..MaxParts, payload \in {"garbage", "noexp"} }
    \cup { TokenText(parts, "exp", exp) : parts \in 1..MaxParts, exp \in 0..MaxExp }
NowSamples ==
  { exp * MsPerSec + d : exp \in 0..MaxExp, d \in {0 - 1, 0, 1} } \cap Nat

\* the guard's periods and the lifetimes the auth service gives its tokens
LivenessMs == 5000
PageLoadMs == 2 * LivenessMs                \* Date.now() when the page loads
ClockStepMs == 6 * LivenessMs               \* Date.now() is followed in steps of 30 s
TokenLifetimes == {60}                      \* seconds, at login
StoredLifetimes == {0 - 5, 0, 60}           \* of a token found at page load
StoredTokens ==
  {NullToken} \cup { Jwt((PageLoadMs \div MsPerSec) + life) : life \in StoredLifetimes }

NoTimer == [armed |-> FALSE, delay |-> 0, due |-> 0]
Timer(delay, nowMs) == [armed |-> TRUE, delay |-> delay, due |-> nowMs + delay]

NotValidated == [called |-> FALSE, value |-> FALSE]
Validated(value) == [called |-> TRUE, value |-> value]

LoginPath == "/login"
ProtectedPaths == {"/products", "/cart"}
Paths == {LoginPath} \cup ProtectedPaths

\* ---------------------------------------------------------------- state
OrderStatuses == { "PENDING_PAYMENT", "PENDING", "PAID", "PAYMENT_FAILED" }
TerminalStatuses == { "PAID", "PAYMENT_FAILED" }

\* what one GET /orders/{id} call yields to the tick callback: the call
\* throws, the body has no status, or the body carries a status string
FetchOutcomes == { "THROW", "NO_STATUS", "SHIPPED" } \cup OrderStatuses

NoOrder == [set |-> FALSE, id |-> Undef, status |-> ""]
LastOrder(id, status) == [set |-> TRUE, id |-> id, status |-> status]

Msg(kind, n) == [kind |-> kind, n |-> n]
NoMsg == Msg("none", 0)

NoAlert == [kind |-> "none", product |-> 0]
Alert(kind, p) == [kind |-> kind, product |-> p]

VARIABLES
  strict,        \* main.jsx renders under React.StrictMode in a development build
  lsToken,       \* localStorage "token" present
  lsCart,        \* localStorage "cart"
  clicks,        \* add-to-cart clicks so far
  addsInFlight,  \* addToCartServer calls awaiting their response, per product
  alert,         \* last alert() of the add-to-cart handler
  view,          \* Cart view instance: "unborn", "rendered", "mounted", "unmounted"
  cart,          \* Cart state: cart
  loading,       \* Cart state: loading
  message,       \* Cart state: message
  lastOrder,     \* Cart state: lastOrder
  loadsPending,  \* load() calls awaiting fetchCartServer
  loadLocal,     \* the local array those load() calls read
  poPc,          \* placeOrder: "idle", "awaitCreate", "awaitClear"
  poOrder,       \* placeOrder: id of the order it holds
  ordersAnswered,\* POST /orders calls answered with a JSON body
  ordersCreated, \* orders the order service created (ids 1..ordersCreated)
  pollRef,       \* pollRef.current: a timer id, or Undef
  liveTimers,    \* interval timers not yet cleared
  timerOrder,    \* timerOrder[t]: the order.id the callback of timer t closes over
  fetchInFlight, \* fetchOrder calls awaiting their response, per order id
  fetchCount,    \* fetchOrder calls started, per order id
  pendingReads,  \* reads of PENDING_PAYMENT / PENDING, per order id
  terminalSeen,  \* a read of PAID / PAYMENT_FAILED happened, per order id
  retryPc,       \* handleRetryFromCart: "idle", "awaitPay"
  retryOrder,    \* handleRetryFromCart: lastOrder.id of the render it was clicked in
  payResp,       \* last POST /payment response: status and text
  payOut,        \* what createPayment made of it
  decrReqs,      \* removeFromCartServer calls awaiting their response: a bag
  now,           \* Date.now(), in milliseconds
  lsJwt,         \* localStorage["token"], the text behind lsToken
  appToken,      \* App state: token
  appMounted,    \* the App component is mounted and its effect has run
  hist,          \* the session history: one path per entry
  hidx,          \* index of the current history entry
  expiryTimer,   \* the setTimeout of the effect's closure
  loginPc,       \* doLogin: "idle", "awaitLogin", "awaitNotify"
  logins,        \* doLogin calls started
  lastStep,      \* the guard check that ran last: "mount", "timer", "tick",
                 \* "pageshow", "popstate", "login"; "other" for any other step
  effectRan,     \* that handler made the App effect run again
  signOuts,      \* logout() calls so far, counted up to MaxSignOuts
  validOut,      \* what isTokenValid returned
  moView,        \* MyOrders: "unborn", "mounted", "unmounted"
  orders,        \* MyOrders state: orders
  retrying,      \* MyOrders state: retrying, per order id
  sweepTimer,    \* the setInterval of the polling effect is armed
  moLoads,       \* load() calls of the mount effect and the sweep awaiting a response
  moPays,        \* handleRetry calls awaiting createPayment, per order id
  moRetryLoads,  \* handleRetry calls awaiting their load(), per order id
  sweeps,        \* sweep ticks so far
  moRetries,     \* retry clicks so far
  moQueue,       \* the load() calls in flight, oldest first: 0 for a load of the
                 \* mount effect or the sweep, o for the one handleRetry(o) awaits
  moStale        \* how many of them were issued before the load now on display

prodVars == << lsToken, lsCart, clicks, addsInFlight, alert >>
cartVars == << cart, loading, message, lastOrder, loadsPending, loadLocal >>
orderVars == << poPc, poOrder, ordersAnswered, ordersCreated >>
pollVars == << pollRef, liveTimers, timerOrder, fetchInFlight, fetchCount,
               pendingReads, terminalSeen >>
retryVars == << retryPc, retryOrder, payResp, payOut >>
guardVars == << now, lsJwt, appToken, appMounted, hist, hidx, expiryTimer,
                loginPc, logins, lastStep, effectRan, signOuts, validOut >>
moVars == << moView, orders, retrying, sweepTimer, moLoads, moPays,
             moRetryLoads, sweeps, moRetries, moQueue, moStale >>
vars == << strict, view, prodVars, cartVars, orderVars, pollVars, retryVars,
           decrReqs, guardVars, moVars >>

NoResp == [status |-> 0, text |-> ""]

\* the Cart view before its route is visited
CartAtRest ==
  /\ clicks = 0
  /\ addsInFlight = [p \in ProductIds |-> 0]
  /\ alert = NoAlert
  /\ view = "unborn"
  /\ cart = << >>
  /\ loading = FALSE
  /\ message = NoMsg
  /\ lastOrder = NoOrder
  /\ loadsPending = 0
  /\ loadLocal = << >>
  /\ poPc = "idle"
  /\ poOrder = Undef
  /\ ordersAnswered = 0
  /\ ordersCreated = 0
  /\ pollRef = Undef
  /\ liveTimers = {}
  /\ timerOrder = << >>
  /\ fetchInFlight = [o \in OrderIds |-> 0]
  /\ fetchCount = [o \in OrderIds |-> 0]
  /\ pendingReads = [o \in OrderIds |-> 0]
  /\ terminalSeen = [o \in OrderIds |-> FALSE]
  /\ retryPc = "idle"
  /\ retryOrder = Undef
  /\ payOut = NoCall
  /\ decrReqs = EmptyBag

\* the order-history view before its route is visited
OrdersAtRest ==
  /\ moView = "unborn"
  /\ orders = << >>
  /\ retrying = [o \in TrackedIds |-> FALSE]
  /\ sweepTimer = FALSE
  /\ moLoads = 0
  /\ moPays = [o \in TrackedIds |-> 0]
  /\ moRetryLoads = [o \in TrackedIds |-> 0]
  /\ sweeps = 0
  /\ moRetries = 0
  /\ moQueue = << >>
  /\ moStale = 0

\* the guard of a user who signed in when the page loaded: the token has
\* its whole lifetime left and the expiry timer is armed for it
SignedInTokens ==
  { Jwt((PageLoadMs \div MsPerSec) + life) : life \in TokenLifetimes }

GuardSignedIn ==
  /\ now = PageLoadMs
  /\ lsToken = TRUE
  /\ lsJwt \in SignedInTokens
  /\ appToken = lsJwt
  /\ appMounted = TRUE
  /\ hist = << "/products" >>
  /\ hidx = 1
  /\ expiryTimer = Timer(lsJwt.exp * MsPerSec - PageLoadMs, PageLoadMs)
  /\ loginPc = "idle"
  /\ logins = 0
  /\ lastStep = "mount"
  /\ effectRan = TRUE
  /\ signOuts = 0
  /\ validOut = NotValidated

\* the guard before the App component mounts
GuardUnmounted ==
  /\ appToken = NullToken
  /\ appMounted = FALSE
  /\ hidx = 1
  /\ expiryTimer = NoTimer
  /\ loginPc = "idle"
  /\ logins = 0
  /\ lastStep = "none"
  /\ effectRan = FALSE
  /\ signOuts = 0
  /\ validOut = NotValidated

\* the page as first rendered, on the Products route of a signed-in user
InitPage ==
  /\ strict \in BOOLEAN
  /\ GuardSignedIn
  /\ CartAtRest
  /\ OrdersAtRest

Init ==
  /\ InitPage
  /\ lsCart = NoStore
  /\ payResp = NoResp

\* the same page with the offline cart an earlier visit may have left
InitStore ==
  /\ InitPage
  /\ lsCart \in InitLocalStores
  /\ payResp = NoResp

\* a state setter of the Cart component: dropped once the instance is unmounted
SetState(new, old) == IF view = "mounted" THEN new ELSE old

\* ---------------------------------------------------------------- session storage
\* the token leaves localStorage while a view stays on screen (sign-out in
\* another tab of the same origin)
TokenRemoved ==
  /\ lsToken
  /\ lsToken' = FALSE
  /\ lsJwt' = NullToken
  /\ lastStep' = "other"
  /\ effectRan' = FALSE
  /\ UNCHANGED << strict, view, lsCart, clicks, addsInFlight, alert,
                  cartVars, orderVars, pollVars, retryVars, decrReqs, moVars,
                  now, appToken, appMounted, hist, hidx, expiryTimer,
                  loginPc, logins, signOuts, validOut >>

\* ---------------------------------------------------------------- Products: add to cart
\* onClick: with a token, await addToCartServer; without, push to localStorage
AddClick(p) ==
  /\ view \in {"unborn", "unmounted"}
  /\ clicks < MaxClicks
  /\ clicks' = clicks + 1
  /\ IF lsToken
       THEN /\ addsInFlight' = [addsInFlight EXCEPT ![p] = @ + 1]
            /\ UNCHANGED << lsCart, alert >>
       ELSE /\ lsCart' = PushLocal(lsCart, p)
            /\ alert' = Alert("local", p)
            /\ UNCHANGED addsInFlight
  /\ UNCHANGED << strict, decrReqs, guardVars, moVars, view, lsToken,
                  cartVars, orderVars, pollVars, retryVars >>

\* addToCartServer resolved (r.ok and a JSON body)
AddServerOk(p) ==
  /\ addsInFlight[p] > 0
  /\ addsInFlight' = [addsInFlight EXCEPT ![p] = @ - 1]
  /\ alert' = Alert("server", p)
  /\ UNCHANGED << strict, decrReqs, guardVars, moVars, view, lsToken, lsCart,
                  clicks,
                  cartVars, orderVars, pollVars, retryVars >>

\* addToCartServer threw: the catch block saves the entry locally
AddServerFail(p) ==
  /\ addsInFlight[p] > 0
  /\ addsInFlight' = [addsInFlight EXCEPT ![p] = @ - 1]
  /\ alert' = Alert("fallback", p)
  /\ lsCart' = PushLocal(lsCart, p)
  /\ UNCHANGED << strict, decrReqs, guardVars, moVars, view, lsToken, clicks,
                  cartVars, orderVars, pollVars, retryVars >>

\* ---------------------------------------------------------------- Cart: mount and load
\* the /cart route renders: RequireAuth lets it through only with a token
CartRender ==
  /\ view = "unborn"
  /\ lsToken
  /\ view' = "rendered"
  /\ UNCHANGED << strict, decrReqs, guardVars, moVars, prodVars, cartVars,
                  orderVars, pollVars, retryVars >>

\* mount effects: load() reads token and local cart; StrictMode runs the
\* effect twice, so two fetchCartServer calls are in flight
CartEffects ==
  /\ view = "rendered"
  /\ view' = "mounted"
  /\ IF lsToken
       THEN /\ loadsPending' = IF strict THEN 2 ELSE 1
            /\ loadLocal' = ReadLocalCart(lsCart)
            /\ UNCHANGED cart
       ELSE /\ cart' = ReadLocalCart(lsCart)
            /\ UNCHANGED << loadsPending, loadLocal >>
  /\ UNCHANGED << strict, decrReqs, guardVars, moVars, prodVars, loading,
                  message, lastOrder,
                  orderVars, pollVars, retryVars >>

\* fetchCartServer resolved with an items array: setCart(merged)
LoadMerged(serverItems) ==
  /\ loadsPending > 0
  /\ loadsPending' = loadsPending - 1
  /\ cart' = SetState(Merge(serverItems, loadLocal), cart)
  /\ UNCHANGED << strict, decrReqs, guardVars, moVars, view, prodVars,
                  loading, message, lastOrder, loadLocal,
                  orderVars, pollVars, retryVars >>

\* fetchCartServer resolved with a body that has no items array: setCart(local)
LoadNoItems ==
  /\ loadsPending > 0
  /\ loadsPending' = loadsPending - 1
  /\ cart' = SetState(loadLocal, cart)
  /\ UNCHANGED << strict, decrReqs, guardVars, moVars, view, prodVars,
                  loading, message, lastOrder, loadLocal,
                  orderVars, pollVars, retryVars >>

\* fetchCartServer threw: advisory message, then setCart(local)
FallbackCartEmpty(local) == << >>
FallbackCart(local) == local

LoadFailed ==
  /\ loadsPending > 0
  /\ loadsPending' = loadsPending - 1
  /\ message' = SetState(Msg("loadAdvisory", 0), message)
  /\ cart' = SetState(FallbackCart(loadLocal), cart)
  /\ UNCHANGED << strict, decrReqs, guardVars, moVars, view, prodVars,
                  loading, lastOrder, loadLocal,
                  orderVars, pollVars, retryVars >>

\* copy.splice(index, 1); setCart(copy); localStorage.setItem("cart", copy)
Splice(seq, i) == SubSeq(seq, 1, i - 1) \o SubSeq(seq, i + 1, Len(seq))

\* removeFromCartServer(it.product_id, token, 1): DELETE /cart/items/{id}?quantity=1
DecrementRequestWhole(it) == [product_id |-> it.product_id, quantity |-> it.quantity]
DecrementRequest(it) == [product_id |-> it.product_id, quantity |-> 1]

RemoveItem(i) ==
  /\ view = "mounted"
  /\ i \in 1..Len(cart)
  /\ decrReqs' = IF lsToken
                   THEN decrReqs (+) SetToBag({DecrementRequest(cart[i])})
                   ELSE decrReqs
  /\ cart' = Splice(cart, i)
  /\ lsCart' = Stored(Splice(cart, i))
  /\ UNCHANGED << strict, guardVars, moVars, view, lsToken, clicks,
                  addsInFlight, alert,
                  loading, message, lastOrder, loadsPending, loadLocal,
                  orderVars, pollVars, retryVars >>

\* the DELETE settled; a rejection is logged by the .catch and nothing else
RemoveServerSettled(req, ok) ==
  /\ BagIn(req, decrReqs)
  /\ decrReqs' = decrReqs (-) SetToBag({req})
  /\ UNCHANGED << strict, guardVars, moVars, view, prodVars, cartVars,
                  orderVars, pollVars, retryVars >>

\* cleanup effect: if (pollRef.current) clearInterval(pollRef.current)
Unmount ==
  /\ view = "mounted"
  /\ view' = "unmounted"
  /\ liveTimers' = liveTimers \ {pollRef}
  /\ UNCHANGED << strict, decrReqs, guardVars, moVars, prodVars, cartVars,
                  orderVars, retryVars,
                  pollRef, timerOrder, fetchInFlight, fetchCount,
                  pendingReads, terminalSeen >>

\* ---------------------------------------------------------------- Cart: placeOrder and its poll
\* if (pollRef.current) clearInterval(pollRef.current); pollRef.current = setInterval(...)
ArmedTimersKeepOld(live, ref, newTimer) == live \cup {newTimer}
ArmedTimers(live, ref, newTimer) == (live \ {ref}) \cup {newTimer}

ArmPoll(orderId) ==
  LET newTimer == Len(timerOrder) + 1
  IN /\ liveTimers' = ArmedTimers(liveTimers, pollRef, newTimer)
     /\ pollRef' = newTimer
     /\ timerOrder' = Append(timerOrder, orderId)
     /\ UNCHANGED << fetchInFlight, fetchCount, pendingReads, terminalSeen >>

\* the Place Order button: disabled={loading || cart.length === 0}
PlaceOrderClick ==
  /\ view = "mounted"
  /\ ~loading
  /\ cart # << >>
  /\ ordersAnswered < MaxOrders
  /\ loading' = TRUE
  /\ message' = NoMsg
  /\ poPc' = "awaitCreate"
  /\ UNCHANGED << strict, decrReqs, guardVars, moVars, view, prodVars, cart,
                  lastOrder, loadsPending, loadLocal,
                  poOrder, ordersAnswered, ordersCreated, pollVars, retryVars >>

\* createOrder threw (fetch rejected or the body is not JSON): catch, finally
CreateOrderThrew ==
  /\ poPc = "awaitCreate"
  /\ poPc' = "idle"
  /\ message' = SetState(Msg("orderError", 0), message)
  /\ loading' = SetState(FALSE, loading)
  /\ UNCHANGED << strict, decrReqs, guardVars, moVars, view, prodVars, cart,
                  lastOrder, loadsPending, loadLocal,
                  poOrder, ordersAnswered, ordersCreated, pollVars, retryVars >>

\* createOrder returned r.json(): the created order, or (created = FALSE) an
\* error body without id and status
CreateOrderAnswered(created) ==
  /\ poPc = "awaitCreate"
  /\ LET id == IF created THEN ordersCreated + 1 ELSE Undef
         status == IF created THEN "PENDING_PAYMENT" ELSE ""
     IN /\ ordersAnswered' = ordersAnswered + 1
        /\ ordersCreated' = IF created THEN ordersCreated + 1 ELSE ordersCreated
        /\ lastOrder' = SetState(LastOrder(id, status), lastOrder)
        /\ message' = SetState(Msg("created", id), message)
        /\ cart' = SetState(<< >>, cart)
        /\ lsCart' = NoStore
        /\ IF lsToken
             THEN /\ poPc' = "awaitClear"
                  /\ poOrder' = id
                  /\ UNCHANGED << loading, pollVars >>
             ELSE /\ poPc' = "idle"
                  /\ ArmPoll(id)
                  /\ loading' = SetState(FALSE, loading)
                  /\ UNCHANGED poOrder
  /\ UNCHANGED << strict, decrReqs, guardVars, moVars, view, lsToken, clicks,
                  addsInFlight, alert,
                  loadsPending, loadLocal, retryVars >>

\* clearCartServer resolved or threw (logged only): arm the poll, finally
ClearCartSettled ==
  /\ poPc = "awaitClear"
  /\ poPc' = "idle"
  /\ ArmPoll(poOrder)
  /\ loading' = SetState(FALSE, loading)
  /\ UNCHANGED << strict, decrReqs, guardVars, moVars, view, prodVars, cart,
                  message, lastOrder, loadsPending,
                  loadLocal, poOrder, ordersAnswered, ordersCreated, retryVars >>

\* the interval fires: the callback starts fetchOrder(order.id)
PollTick(t) ==
  /\ t \in liveTimers
  /\ fetchCount[timerOrder[t]] < MaxFetch
  /\ fetchInFlight' = [fetchInFlight EXCEPT ![timerOrder[t]] = @ + 1]
  /\ fetchCount' = [fetchCount EXCEPT ![timerOrder[t]] = @ + 1]
  /\ UNCHANGED << strict, decrReqs, guardVars, moVars, view, prodVars,
                  cartVars, orderVars, retryVars,
                  pollRef, liveTimers, timerOrder, pendingReads, terminalSeen >>

\* clearInterval(pollRef.current); pollRef.current = null
StoppedTimersNone(live, ref) == live
StoppedTimers(live, ref) == live \ {ref}

\* the statuses the tick callback acts on; a throw, a body without status
\* and any other status fall through
StopsPollingOnAnyStatus(outcome) == outcome \notin { "THROW", "NO_STATUS" }
StopsPolling(outcome) == outcome \in TerminalStatuses

\* a fetchOrder call of a callback closing over order id o settles
PollResponse(o, outcome) ==
  /\ fetchInFlight[o] > 0
  /\ o = Undef => outcome = "THROW"
  /\ fetchInFlight' = [fetchInFlight EXCEPT ![o] = @ - 1]
  /\ IF StopsPolling(outcome)
       THEN /\ message' = SetState(Msg(IF outcome = "PAID" THEN "paid" ELSE "failed", o),
                                   message)
            /\ lastOrder' = SetState(IF outcome = "PAID" THEN NoOrder
                                     ELSE LastOrder(o, "PAYMENT_FAILED"), lastOrder)
            /\ liveTimers' = StoppedTimers(liveTimers, pollRef)
            /\ pollRef' = Undef
            /\ terminalSeen' = [terminalSeen EXCEPT ![o] = TRUE]
            /\ UNCHANGED pendingReads
       ELSE /\ pendingReads' = IF outcome \in {"PENDING_PAYMENT", "PENDING"}
                                 THEN [pendingReads EXCEPT ![o] = @ + 1]
                                 ELSE pendingReads
            /\ UNCHANGED << message, lastOrder, liveTimers, pollRef,
                            terminalSeen >>
  /\ UNCHANGED << strict, decrReqs, guardVars, moVars, view, prodVars, cart,
                  loading, loadsPending, loadLocal,
                  orderVars, retryVars, timerOrder, fetchCount >>

\* ---------------------------------------------------------------- Cart: handleRetryFromCart
\* the retry button is rendered while lastOrder is set: disabled={loading}
RetryClick ==
  /\ view = "mounted"
  /\ lastOrder.set
  /\ ~loading
  /\ IF lastOrder.id = Undef
       THEN UNCHANGED << loading, message, retryPc, retryOrder >>
       ELSE /\ loading' = TRUE
            /\ message' = Msg("retrying", lastOrder.id)
            /\ retryPc' = "awaitPay"
            /\ retryOrder' = lastOrder.id
  /\ UNCHANGED << strict, decrReqs, guardVars, moVars, view, prodVars, cart,
                  lastOrder, loadsPending, loadLocal,
                  orderVars, pollVars, payResp, payOut >>

\* POST /payment settled: createPayment returns or throws, then the handler
\* classifies pay.result and runs its finally block
RetrySettled(status, text) ==
  /\ retryPc = "awaitPay"
  /\ status = NetworkError => text = ""
  /\ LET out == CreatePayment(status, text)
     IN /\ IF out.kind = "throw"
             THEN /\ message' = SetState(Msg("retryError", out.status), message)
                  /\ UNCHANGED lastOrder
             ELSE IF ~Truthy(out.value)
             THEN /\ message' = SetState(Msg("retryError", 0), message)
                  /\ UNCHANGED lastOrder
             ELSE IF out.value.result = "SUCCESS"
             THEN /\ message' = SetState(Msg("paid", retryOrder), message)
                  /\ lastOrder' = SetState(NoOrder, lastOrder)
             ELSE IF out.value.result = "PENDING"
             THEN /\ message' = SetState(Msg("retryPending", 0), message)
                  /\ UNCHANGED lastOrder
             ELSE /\ message' = SetState(Msg("retryFailed", 0), message)
                  /\ UNCHANGED lastOrder
  /\ retryPc' = "idle"
  /\ loading' = SetState(FALSE, loading)
  /\ UNCHANGED << strict, decrReqs, guardVars, moVars, view, prodVars, cart,
                  loadsPending, loadLocal,
                  orderVars, pollVars, retryOrder, payResp, payOut >>

\* ---------------------------------------------------------------- MyOrders
\* the statuses the polling effect and the retry button look for
SweepStatuses == { "PENDING_PAYMENT", "PAYMENT_FAILED", "PENDING" }

\* what GET /orders can answer: up to MaxTracked orders, ids 1..n, any statuses
OrderLists ==
  UNION { { [i \in 1..n |-> [id |-> i, status |-> f[i]]] : f \in [1..n -> OrderStatuses] } :
          n \in 0..MaxTracked }

\* needsPolling(list)
NeedsPollingNever(list) == FALSE
NeedsPolling(list) == \E i \in 1..Len(list) : list[i].status \in SweepStatuses

\* a state setter of the MyOrders component: dropped once it is unmounted
SetMoState(new, old) == IF moView = "mounted" THEN new ELSE old

\* the finally block of handleRetry: setRetrying(prev => ({...prev, [orderId]: false}))
RetryingKept(prev, orderId) == prev
RetryingCleared(prev, orderId) == [prev EXCEPT ![orderId] = FALSE]

\* load() is called: one more fetchMyOrders in flight
LoadIssued(tags) ==
  /\ moQueue' = moQueue \o tags
  /\ UNCHANGED moStale

\* the load at position p of the queue ended; shown tells whether its
\* setOrders took effect, after which the loads ahead of it are the stale ones
LoadEnded(p, shown) ==
  /\ moQueue' = Splice(moQueue, p)
  /\ moStale' = IF shown THEN p - 1
                ELSE IF p <= moStale THEN moStale - 1 ELSE moStale

\* setOrders(fully) and the polling effect that follows it: the old timer is
\* cleared and a new one armed if needsPolling(orders)
ShowOrders(list) ==
  /\ orders' = SetMoState(list, orders)
  /\ sweepTimer' = SetMoState(NeedsPolling(list), sweepTimer)

\* the /myorders route renders behind RequireAuth; the mount effects call
\* load() (twice under StrictMode) and run the polling effect on orders = []
MoMount ==
  /\ moView = "unborn"
  /\ lsToken
  /\ moView' = "mounted"
  /\ moLoads' = IF strict THEN 2 ELSE 1
  /\ LoadIssued(IF strict THEN << 0, 0 >> ELSE << 0 >>)
  /\ sweepTimer' = NeedsPolling(orders)
  /\ UNCHANGED << strict, view, prodVars, cartVars, orderVars, pollVars,
                  retryVars,
                  decrReqs, guardVars, orders, retrying, moPays, moRetryLoads,
                  sweeps, moRetries >>

\* fetchMyOrders resolved with a list and the items were enriched
MoLoadAnswered(p, list) ==
  /\ p \in 1..Len(moQueue)
  /\ moQueue[p] = 0
  /\ moLoads' = moLoads - 1
  /\ LoadEnded(p, moView = "mounted")
  /\ ShowOrders(list)
  /\ UNCHANGED << strict, view, prodVars, cartVars, orderVars, pollVars,
                  retryVars,
                  decrReqs, guardVars, moView, retrying, moPays, moRetryLoads,
                  sweeps, moRetries >>

\* fetchMyOrders threw or its body is not a list: console.error
MoLoadFailed(p) ==
  /\ p \in 1..Len(moQueue)
  /\ moQueue[p] = 0
  /\ moLoads' = moLoads - 1
  /\ LoadEnded(p, FALSE)
  /\ UNCHANGED << strict, view, prodVars, cartVars, orderVars, pollVars,
                  retryVars,
                  decrReqs, guardVars, moView, orders, retrying, sweepTimer, moPays,
                  moRetryLoads, sweeps, moRetries >>

\* setInterval(() => { load(); }, 5000) ticks
SweepTick ==
  /\ sweepTimer
  /\ sweeps < MaxSweeps
  /\ sweeps' = sweeps + 1
  /\ moLoads' = moLoads + 1
  /\ LoadIssued(<< 0 >>)
  /\ UNCHANGED << strict, view, prodVars, cartVars, orderVars, pollVars,
                  retryVars,
                  decrReqs, guardVars, moView, orders, retrying, sweepTimer, moPays,
                  moRetryLoads, moRetries >>

\* the view is left: the polling effect's cleanup clears the timer
MoUnmount ==
  /\ moView = "mounted"
  /\ moView' = "unmounted"
  /\ sweepTimer' = FALSE
  /\ UNCHANGED << strict, view, prodVars, cartVars, orderVars, pollVars,
                  retryVars,
                  decrReqs, guardVars, orders, retrying, moLoads, moPays,
                  moRetryLoads, sweeps, moRetries, moQueue, moStale >>

\* the retry button of an order: rendered for the recoverable statuses
RetryShown(status) == status \in { "PAYMENT_FAILED", "PENDING_PAYMENT", "PENDING" }

\* disabled={retrying[o.id]}
RetryEnabledAlways(o) == TRUE
RetryEnabled(o) == ~retrying[o]

MoRetryClick(o) ==
  /\ moView = "mounted"
  /\ \E i \in 1..Len(orders) : orders[i].id = o /\ RetryShown(orders[i].status)
  /\ RetryEnabled(o)
  /\ moRetries < MaxRetries
  /\ moRetries' = moRetries + 1
  /\ retrying' = [retrying EXCEPT ![o] = TRUE]
  /\ moPays' = [moPays EXCEPT ![o] = @ + 1]
  /\ UNCHANGED << strict, view, prodVars, cartVars, orderVars, pollVars,
                  retryVars,
                  decrReqs, guardVars, moView, orders, sweepTimer, moLoads,
                  moRetryLoads, sweeps, moQueue, moStale >>

\* POST /payment settled: createPayment throws (catch, finally) or returns (load())
MoPaySettled(o, status, text) ==
  /\ moPays[o] > 0
  /\ status = NetworkError => text = ""
  /\ moPays' = [moPays EXCEPT ![o] = @ - 1]
  /\ IF CreatePayment(status, text).kind = "throw"
       THEN /\ retrying' = SetMoState(RetryingCleared(retrying, o), retrying)
            /\ UNCHANGED << moRetryLoads, moQueue, moStale >>
       ELSE /\ moRetryLoads' = [moRetryLoads EXCEPT ![o] = @ + 1]
            /\ LoadIssued(<< o >>)
            /\ UNCHANGED retrying
  /\ UNCHANGED << strict, view, prodVars, cartVars, orderVars, pollVars,
                  retryVars,
                  decrReqs, guardVars, moView, orders, sweepTimer, moLoads,
                  sweeps, moRetries >>

\* the load() awaited by handleRetry showed a list; finally
MoRetryLoadAnswered(p, list) ==
  /\ p \in 1..Len(moQueue)
  /\ moQueue[p] # 0
  /\ moRetryLoads' = [moRetryLoads EXCEPT ![moQueue[p]] = @ - 1]
  /\ LoadEnded(p, moView = "mounted")
  /\ ShowOrders(list)
  /\ retrying' = SetMoState(RetryingCleared(retrying, moQueue[p]), retrying)
  /\ UNCHANGED << strict, view, prodVars, cartVars, orderVars, pollVars,
                  retryVars,
                  decrReqs, guardVars, moView, moLoads, moPays, sweeps, moRetries >>

\* the load() awaited by handleRetry caught an error; finally
MoRetryLoadFailed(p) ==
  /\ p \in 1..Len(moQueue)
  /\ moQueue[p] # 0
  /\ moRetryLoads' = [moRetryLoads EXCEPT ![moQueue[p]] = @ - 1]
  /\ LoadEnded(p, FALSE)
  /\ retrying' = SetMoState(RetryingCleared(retrying, moQueue[p]), retrying)
  /\ UNCHANGED << strict, view, prodVars, cartVars, orderVars, pollVars,
                  retryVars,
                  decrReqs, guardVars, moView, orders, sweepTimer, moLoads, moPays,
                  sweeps, moRetries >>

\* ---------------------------------------------------------------- createPayment on its own
\* one POST /payment response is handed to createPayment
CreatePaymentCall ==
  /\ payOut = NoCall
  /\ payOut' = CreatePayment(payResp.status, payResp.text)
  /\ UNCHANGED << strict, decrReqs, guardVars, moVars, view, prodVars,
                  cartVars, orderVars, pollVars,
                  retryPc, retryOrder, payResp >>

\* ---------------------------------------------------------------- App: the session guard
\* the guard's state as one value, so that a handler and the effect run it
\* causes compose
Guard ==
  [tok |-> lsJwt, cart |-> lsCart, app |-> appToken, hist |-> hist,
   hidx |-> hidx, timer |-> expiryTimer, ran |-> FALSE, outs |-> signOuts]

PathOf(g) == g.hist[g.hidx]

\* history.replaceState / navigate(path, { replace: true })
ReplaceEntry(g, path) == [g EXCEPT !.hist[g.hidx] = path]
\* <Link to=path>: a new entry after the current one
PushEntry(g, path) ==
  [g EXCEPT !.hist = Append(SubSeq(g.hist, 1, g.hidx), path), !.hidx = g.hidx + 1]

CountUpTo(n, max) == IF n < max THEN n + 1 ELSE max

\* clearAuth(): localStorage.removeItem("token")
ClearAuthAllKeys(g) == [g EXCEPT !.tok = NullToken, !.cart = NoStore]
ClearAuth(g) == [g EXCEPT !.tok = NullToken]

\* logout(): clearAuth(); setToken(null); replaceState; navigate("/login", replace)
LogoutPushing(g) ==
  PushEntry([ClearAuth(g) EXCEPT !.app = NullToken,
                                 !.outs = CountUpTo(g.outs, MaxSignOuts)], LoginPath)
Logout(g) ==
  ReplaceEntry([ClearAuth(g) EXCEPT !.app = NullToken,
                                    !.outs = CountUpTo(g.outs, MaxSignOuts)], LoginPath)

\* scheduleLogout(), after the cleanup of the previous effect run cleared its timer
ScheduleLogoutArmsAnyway(g, nowMs) ==
  IF ~TokenTruthy(g.tok) \/ NoUsableExp(ParseJwt(g.tok))
    THEN [g EXCEPT !.app = g.tok, !.timer = NoTimer, !.ran = TRUE]
    ELSE [g EXCEPT !.app = g.tok, !.ran = TRUE,
                   !.timer = Timer(ParseJwt(g.tok).exp * MsPerSec - nowMs, nowMs)]
ScheduleLogout(g, nowMs) ==
  LET g1 == [g EXCEPT !.app = g.tok, !.timer = NoTimer, !.ran = TRUE]
      claims == ParseJwt(g.tok)
      msLeft == claims.exp * MsPerSec - nowMs
  IN IF ~TokenTruthy(g.tok) THEN g1
     ELSE IF NoUsableExp(claims) THEN g1
     ELSE IF msLeft <= 0 THEN Logout(g1)
     ELSE [g1 EXCEPT !.timer = Timer(msLeft, nowMs)]

\* one run of the effect, and the run that follows when its logout() moved
\* the location
RunEffect(g, nowMs) ==
  LET g1 == ScheduleLogout(g, nowMs)
  IN IF PathOf(g1) # PathOf(g) THEN ScheduleLogout(g1, nowMs) ELSE g1

\* <RequireAuth> around the element of a protected route
RequireAuth(g, nowMs) ==
  IF PathOf(g) \in ProtectedPaths /\ ~IsTokenValid(g.tok, nowMs)
    THEN ReplaceEntry(g, LoginPath)
    ELSE g

\* the render that follows a handler.  The effect depends on [navigate]; the
\* navigate function of a <BrowserRouter> is a new one whenever the pathname
\* changes, so the effect is cleaned up and run again on every such render
Arrive(prev, g, nowMs) ==
  LET g1 == IF PathOf(g) # prev THEN RunEffect(g, nowMs) ELSE g
      g2 == RequireAuth(g1, nowMs)
  IN IF PathOf(g2) # PathOf(g1) THEN RunEffect(g2, nowMs) ELSE g2

Apply(g, step) ==
  /\ lsJwt' = g.tok
  /\ lsCart' = g.cart
  /\ lsToken' = TokenTruthy(g.tok)
  /\ appToken' = g.app
  /\ hist' = g.hist
  /\ hidx' = g.hidx
  /\ expiryTimer' = g.timer
  /\ effectRan' = g.ran
  /\ signOuts' = g.outs
  /\ lastStep' = step

ViewsUntouched ==
  UNCHANGED << strict, view, clicks, addsInFlight, alert, cartVars,
               orderVars, pollVars, retryVars, decrReqs, moVars, validOut >>

\* the page loads: useState(getToken()), first render, first effect run
AppMount ==
  /\ ~appMounted
  /\ appMounted' = TRUE
  /\ Apply(Arrive("", [Guard EXCEPT !.app = lsJwt], now), "mount")
  /\ ViewsUntouched
  /\ UNCHANGED << now, loginPc, logins >>

\* time passes
Advance ==
  /\ now < PageLoadMs + MaxSteps * ClockStepMs
  /\ now' = now + ClockStepMs
  /\ lastStep' = "other"
  /\ effectRan' = FALSE
  /\ ViewsUntouched
  /\ UNCHANGED << lsToken, lsJwt, lsCart, appToken, appMounted, hist, hidx,
                  expiryTimer, loginPc, logins, signOuts >>

\* setTimeout(() => logout(), msLeft) fires, at its due time or later
ExpiryFire ==
  /\ appMounted
  /\ expiryTimer.armed
  /\ now >= expiryTimer.due
  /\ Apply(Arrive(PathOf(Guard), Logout([Guard EXCEPT !.timer = NoTimer]), now), "timer")
  /\ ViewsUntouched
  /\ UNCHANGED << now, appMounted, loginPc, logins >>

\* the setInterval callback: if (!t) return; if (!isTokenValid(t)) logout()
TickSignsOutWithToken(tok, nowMs) == TokenTruthy(tok)
TickSignsOut(tok, nowMs) == TokenTruthy(tok) /\ ~IsTokenValid(tok, nowMs)

LivenessTick ==
  /\ appMounted
  /\ Apply(IF TickSignsOut(lsJwt, now)
             THEN Arrive(PathOf(Guard), Logout(Guard), now)
             ELSE Guard,
           "tick")
  /\ ViewsUntouched
  /\ UNCHANGED << now, appMounted, loginPc, logins >>

\* handlePageShow / handlePopState: replaceState and navigate to /login, no logout()
ResumeCheck(g, nowMs) ==
  IF ~TokenTruthy(g.tok) \/ ~IsTokenValid(g.tok, nowMs)
    THEN ReplaceEntry(g, LoginPath)
    ELSE g

PageShow ==
  /\ appMounted
  /\ Apply(IF ResumeCheck(Guard, now) = Guard /\ IsTokenValid(lsJwt, now)
             THEN Guard
             ELSE Arrive(PathOf(Guard), ResumeCheck(Guard, now), now),
           "pageshow")
  /\ ViewsUntouched
  /\ UNCHANGED << now, appMounted, loginPc, logins >>

\* Back or Forward: the router takes the entry's location, then handlePopState runs
PopState(d) ==
  /\ appMounted
  /\ hidx + d \in 1..Len(hist)
  /\ Apply(Arrive(PathOf(Guard), ResumeCheck([Guard EXCEPT !.hidx = hidx + d], now), now),
           "popstate")
  /\ ViewsUntouched
  /\ UNCHANGED << now, appMounted, loginPc, logins >>

\* a <Link> of the header; the Login link is rendered only without a token
LinkClick(path) ==
  /\ appMounted
  /\ path # PathOf(Guard)
  /\ hidx < MaxHist
  /\ path = LoginPath => ~TokenTruthy(appToken)
  /\ Apply(Arrive(PathOf(Guard), PushEntry(Guard, path), now), "other")
  /\ ViewsUntouched
  /\ UNCHANGED << now, appMounted, loginPc, logins >>

\* <button onClick={logout}>, rendered only with a token
LogoutClick ==
  /\ appMounted
  /\ TokenTruthy(appToken)
  /\ Apply(Arrive(PathOf(Guard), Logout(Guard), now), "other")
  /\ ViewsUntouched
  /\ UNCHANGED << now, appMounted, loginPc, logins >>

\* ---------------------------------------------------------------- Login: doLogin
LoginSubmit ==
  /\ appMounted
  /\ PathOf(Guard) = LoginPath
  /\ loginPc = "idle"
  /\ logins < MaxLogins
  /\ loginPc' = "awaitLogin"
  /\ logins' = logins + 1
  /\ lastStep' = "other"
  /\ effectRan' = FALSE
  /\ ViewsUntouched
  /\ UNCHANGED << now, lsToken, lsJwt, lsCart, appToken, appMounted, hist,
                  hidx, expiryTimer, signOuts >>

\* login() threw: setError
LoginRejected ==
  /\ loginPc = "awaitLogin"
  /\ loginPc' = "idle"
  /\ lastStep' = "other"
  /\ effectRan' = FALSE
  /\ ViewsUntouched
  /\ UNCHANGED << now, lsToken, lsJwt, lsCart, appToken, appMounted, hist,
                  hidx, expiryTimer, logins, signOuts >>

\* login() resolved: localStorage.setItem("token", tokenResp.access_token)
LoginAnswered(life) ==
  /\ loginPc = "awaitLogin"
  /\ loginPc' = "awaitNotify"
  /\ lsJwt' = Jwt((now \div MsPerSec) + life)
  /\ lsToken' = TRUE
  /\ lastStep' = "other"
  /\ effectRan' = FALSE
  /\ ViewsUntouched
  /\ UNCHANGED << now, lsCart, appToken, appMounted, hist, hidx, expiryTimer,
                  logins, signOuts >>

\* the logged_in notification settled: navigate("/products", { replace: true })
LoginNotified ==
  /\ loginPc = "awaitNotify"
  /\ loginPc' = "idle"
  /\ Apply(Arrive(PathOf(Guard), ReplaceEntry(Guard, "/products"), now), "login")
  /\ ViewsUntouched
  /\ UNCHANGED << now, appMounted, logins >>

\* ---------------------------------------------------------------- isTokenValid on its own
\* one stored token and one clock reading are handed to isTokenValid
IsTokenValidCall ==
  /\ validOut = NotValidated
  /\ validOut' = Validated(IsTokenValid(lsJwt, now))
  /\ UNCHANGED << strict, view, prodVars, cartVars, orderVars, pollVars,
                  retryVars,
                  decrReqs, moVars, now, lsJwt, appToken, appMounted, hist, hidx,
                  expiryTimer, loginPc, logins, lastStep, effectRan, signOuts >>

\* ---------------------------------------------------------------- specifications
\* the order lifecycle of the Cart view
Next ==
  \/ CartRender
  \/ CartEffects
  \/ \E serverItems \in ServerCarts : LoadMerged(serverItems)
  \/ LoadNoItems
  \/ LoadFailed
  \/ Unmount
  \/ PlaceOrderClick
  \/ CreateOrderThrew
  \/ \E created \in BOOLEAN : CreateOrderAnswered(created)
  \/ ClearCartSettled
  \/ \E t \in TimerIds : PollTick(t)
  \/ \E o \in OrderIds, outcome \in FetchOutcomes : PollResponse(o, outcome)
  \/ RetryClick
  \/ \E status \in StatusCodes \cup {NetworkError}, text \in BodyTexts :
        RetrySettled(status, text)

Spec == Init /\ [][Next]_vars

\* cart reconciliation: the Products add handler and the Cart view's load
NextStore ==
  \/ TokenRemoved
  \/ \E p \in ProductIds : AddClick(p)
  \/ \E p \in ProductIds : AddServerOk(p)
  \/ \E p \in ProductIds : AddServerFail(p)
  \/ CartRender
  \/ CartEffects
  \/ \E serverItems \in ServerCarts : LoadMerged(serverItems)
  \/ LoadNoItems
  \/ LoadFailed
  \/ Unmount

SpecStore == InitStore /\ [][NextStore]_vars

\* the Cart view's removeItem, on the cart its load put on screen
NextRemove ==
  \/ TokenRemoved
  \/ CartRender
  \/ CartEffects
  \/ \E serverItems \in ServerCarts : LoadMerged(serverItems)
  \/ LoadNoItems
  \/ LoadFailed
  \/ \E i \in 1..(Len(ExampleLocal) + MaxServerItems) : RemoveItem(i)
  \/ \E req \in BagToSet(decrReqs), ok \in BOOLEAN : RemoveServerSettled(req, ok)
  \/ Unmount

SpecRemove == InitStore /\ [][NextRemove]_vars

\* createPayment applied to every response of the bounded set
PayResponses ==
  { [status |-> st, text |-> tx] : st \in StatusCodes, tx \in BodyTexts }
    \cup { [status |-> NetworkError, text |-> ""] }

InitPay ==
  /\ InitPage
  /\ lsCart = NoStore
  /\ payResp \in PayResponses

SpecPay == InitPay /\ [][CreatePaymentCall]_vars

\* handleRetry only tells a createPayment that throws from one that returns:
\* every status, with an empty body and with a SUCCESS body
RetryAnswers ==
  { resp \in PayResponses : resp.text \in { "", "{\"result\":\"SUCCESS\"}" } }

\* positions in the queue of loads: two of the mount effects, the sweeps'
\* and the retries'
QueuePositions == 1..(2 + MaxSweeps + MaxRetries)

\* the order-history view
NextOrders ==
  \/ MoMount
  \/ \E p \in QueuePositions, list \in OrderLists : MoLoadAnswered(p, list)
  \/ \E p \in QueuePositions : MoLoadFailed(p)
  \/ SweepTick
  \/ MoUnmount
  \/ \E o \in TrackedIds : MoRetryClick(o)
  \/ \E o \in TrackedIds, resp \in RetryAnswers : MoPaySettled(o, resp.status, resp.text)
  \/ \E p \in QueuePositions, list \in OrderLists : MoRetryLoadAnswered(p, list)
  \/ \E p \in QueuePositions : MoRetryLoadFailed(p)

SpecOrders == Init /\ [][NextOrders]_vars

\* the two views with a retry button: the user opens the Cart or the order history
NextRetry ==
  \/ moView = "unborn" /\ Next
  \/ view = "unborn" /\ NextOrders

SpecRetry == Init /\ [][NextRetry]_vars

\* the session guard: page load, clock, timers, resume events, links, login
InitGuard ==
  /\ strict = TRUE
  /\ lsCart \in InitLocalStores
  /\ payResp = NoResp
  /\ CartAtRest
  /\ OrdersAtRest
  /\ GuardUnmounted
  /\ hist \in { << LoginPath >>, << "/products" >> }
  /\ now = PageLoadMs
  /\ lsJwt \in StoredTokens
  /\ lsToken = TokenTruthy(lsJwt)

NextGuard ==
  \/ AppMount
  \/ Advance
  \/ TokenRemoved
  \/ ExpiryFire
  \/ LivenessTick
  \/ PageShow
  \/ \E d \in {0 - 1, 1} : PopState(d)
  \/ \E path \in Paths : LinkClick(path)
  \/ LogoutClick
  \/ LoginSubmit
  \/ LoginRejected
  \/ \E life \in TokenLifetimes : LoginAnswered(life)
  \/ LoginNotified

SpecGuard == InitGuard /\ [][NextGuard]_vars

\* isTokenValid applied to every token and clock reading of the bounded sets
InitToken ==
  /\ strict = TRUE
  /\ lsCart = NoStore
  /\ payResp = NoResp
  /\ CartAtRest
  /\ OrdersAtRest
  /\ GuardUnmounted
  /\ hist = << LoginPath >>
  /\ now \in NowSamples
  /\ lsJwt \in TokenSamples
  /\ lsToken = TokenTruthy(lsJwt)

SpecToken == InitToken /\ [][IsTokenValidCall]_vars

\* ---------------------------------------------------------------- properties
TimersOf(o, live) == { t \in live : timerOrder[t] = o }

UniqueProducts(items) ==
  \A i, j \in 1..Len(items) : i # j => items[i].product_id # items[j].product_id

\* C1: at most one order-status poll timer of the Cart instance is live in
\* every reachable state, and arming the poll for a new order leaves the new
\* timer as the only live one (any earlier timer is cancelled and replaced).
AtMostOnePollTimer ==
  /\ [](Cardinality(liveTimers) <= 1)
  /\ [][(pollRef' # pollRef /\ pollRef' # Undef) => liveTimers' = {pollRef'}]_vars

\* a second poll was armed while the first timer was still ticking
SecondPollReplacedFirst ==
  /\ view = "mounted"
  /\ Len(timerOrder) = 2
  /\ ~terminalSeen[timerOrder[1]]
  /\ fetchCount[timerOrder[1]] > 0
  /\ liveTimers = {2}

\* C2: once a status read of an order returned PAID or PAYMENT_FAILED no
\* timer polling that order is live and no further fetch for it is started;
\* a read of PENDING_PAYMENT or PENDING leaves the timers as they are.
PollingStopsAtTerminal ==
  /\ [](\A o \in OrderIds : terminalSeen[o] => TimersOf(o, liveTimers) = {})
  /\ [][\A o \in OrderIds :
          /\ terminalSeen[o] => fetchCount'[o] = fetchCount[o]
          /\ pendingReads'[o] > pendingReads[o] =>
                (liveTimers' = liveTimers /\ pollRef' = pollRef)]_vars

\* reads PENDING, PENDING, PAID: three fetches, none in flight, timer stopped
ThreeFetchesThenPaid ==
  \E o \in OrderIds :
    /\ terminalSeen[o]
    /\ pendingReads[o] = 2
    /\ fetchCount[o] = 3
    /\ fetchInFlight[o] = 0
    /\ message = Msg("paid", o)
    /\ liveTimers = {}

\* C3: after the Cart view is unmounted no poll timer of that instance is live.
NoTimerAfterUnmount == view = "unmounted" => liveTimers = {}

\* C4: when a retry from the displayed Cart view completes with a success
\* (200) or pending (202) result, a poll timer for the retried order is live.
RetryAccepted(status, text) ==
  /\ status \in {200, 202}
  /\ CreatePayment(status, text).kind = "return"
  /\ CreatePayment(status, text).value.result \in {"SUCCESS", "PENDING"}

RetryReentersPolling ==
  [][\A status \in StatusCodes, text \in BodyTexts :
       (view = "mounted" /\ RetryAccepted(status, text) /\ RetrySettled(status, text)) =>
          TimersOf(retryOrder, liveTimers)' # {}]_vars

\* C5: createPayment returns for code 202 whatever the body, and throws an
\* error carrying the status code for every code other than 200 and 202.
PaymentRaiseContract ==
  (payOut # NoCall /\ payResp.status \in StatusCodes) =>
    /\ payResp.status = 202 => payOut.kind = "return"
    /\ payResp.status \notin {200, 202} =>
          (payOut.kind = "throw" /\ payOut.status = payResp.status)

\* a 202 whose body is not JSON came back as a return value
Pending202Returned ==
  /\ payResp.status = 202
  /\ payResp.text = "Accepted"
  /\ payOut.kind = "return"

\* C6: for code 202 createPayment returns the parsed body when the text
\* parses as JSON and the synthesized pending object in every other case.
PendingBodyContract ==
  (payOut # NoCall /\ payResp.status = 202) =>
    payOut.value = IF Parseable(payResp.text) THEN JsonParse(payResp.text)
                   ELSE SynthPending

\* C7: a successful server fetch displays the server items in their order
\* followed by the local items whose product id is not among them.
ServerThenAbsentLocals(serverItems, local) ==
  LET Absent(li) == \A i \in 1..Len(serverItems) :
                       serverItems[i].product_id # li.product_id
  IN serverItems \o SelectSeq(local, Absent)

LoadMergeContract ==
  [][\A serverItems \in ServerCarts :
       (view = "mounted" /\ LoadMerged(serverItems)) =>
          cart' = ServerThenAbsentLocals(serverItems, loadLocal)]_vars

\* server=[{1,qty 2}], local=[{1,qty 5},{2,qty 1}] gave [{1,qty 2},{2,qty 1}]
MergeExampleShown ==
  /\ view = "mounted"
  /\ loadLocal = ExampleLocal
  /\ cart = << Item(1, 2, CatalogPrice(1) + 5), Item(2, 1, CatalogPrice(2)) >>

\* C8: the cart a merge displays has at most one entry per product id.
MergedCartUnique ==
  [][\A serverItems \in ServerCarts :
       (view = "mounted" /\ LoadMerged(serverItems)) => UniqueProducts(cart')]_vars

\* C9: when the server cart fetch fails the load completes with the local
\* cart displayed and the advisory message set.
LoadFailureFallsBack ==
  [][(view = "mounted" /\ LoadFailed) =>
       (cart' = loadLocal /\ message' = Msg("loadAdvisory", 0))]_vars

\* a failed fetch left the non-empty local cart on display
LocalCartAfterFailedFetch ==
  /\ view = "mounted"
  /\ message = Msg("loadAdvisory", 0)
  /\ loadsPending = 0
  /\ cart # << >>
  /\ cart = loadLocal

\* C10: when the add-to-cart handler returns for a product, either the
\* server accepted the add or an entry for the product was appended to the
\* local store.
AddReturned(p) ==
  \/ addsInFlight'[p] < addsInFlight[p]
  \/ (clicks' > clicks /\ alert' = Alert("local", p))

AddedSomewhere ==
  [][\A p \in ProductIds :
       AddReturned(p) =>
         \/ alert' = Alert("server", p)
         \/ /\ lsCart'.present
            /\ Len(lsCart'.items) = Len(ReadLocalCart(lsCart)) + 1
            /\ lsCart'.items[Len(lsCart'.items)] = LocalEntry(p)]_vars

\* a server add failed and the entry went to the local store
FallbackEntryStored ==
  /\ alert.kind = "fallback"
  /\ lsCart.present
  /\ Len(lsCart.items) > 0
  /\ lsCart.items[Len(lsCart.items)] = LocalEntry(alert.product)

\* C11: removeItem(index) takes the entry at that index off the displayed cart
\* at once and, only with a token, starts one server decrement of exactly one
\* unit of that product; when that request settles, with success or failure,
\* the displayed and the stored cart stay as the removal left them
RemoveContract ==
  [][ /\ \A i \in 1..Len(cart) :
           RemoveItem(i) =>
             /\ cart' = SubSeq(cart, 1, i - 1) \o SubSeq(cart, i + 1, Len(cart))
             /\ decrReqs' =
                  IF lsToken
                    THEN decrReqs (+) SetToBag({[product_id |-> cart[i].product_id,
                                                 quantity |-> 1]})
                    ELSE decrReqs
      /\ \A req \in BagToSet(decrReqs), ok \in BOOLEAN :
           RemoveServerSettled(req, ok) =>
             /\ cart' = cart
             /\ lsCart' = lsCart ]_vars

\* the five-unit entry of the offline cart was removed: one unit is asked of
\* the server and the other entry is what is shown and stored
RemovedFiveUnitEntry ==
  /\ BagIn([product_id |-> 1, quantity |-> 1], decrReqs)
  /\ cart = << Item(2, 1, CatalogPrice(2)) >>
  /\ lsCart = Stored(cart)

\* C12: isTokenValid returns false for a null, empty or malformed token and
\* for claims without exp, and never throws; for any other token it returns
\* true exactly when now < exp * 1000, so false at now = exp * 1000
TokenValidityContract ==
  validOut.called =>
    validOut.value = ( /\ lsJwt.kind = "text"
                       /\ lsJwt.parts = 3
                       /\ lsJwt.payload = "exp"
                       /\ now < lsJwt.exp * 1000 )

\* a well-formed token checked at the very millisecond of its exp
InvalidAtExpiryInstant ==
  /\ validOut = Validated(FALSE)
  /\ lsJwt = Jwt(2)
  /\ now = 2000

\* the signed-out state: no credential in storage or in the App state, and
\* the login view in the current history entry
SignedOut ==
  /\ ~lsToken
  /\ lsJwt = NullToken
  /\ appToken = NullToken
  /\ hist[hidx] = LoginPath

\* the stored token carries an exp that lies msLeft <= 0 from now
StoredTokenExpired ==
  /\ lsJwt.kind = "text"
  /\ lsJwt.payload = "exp"
  /\ lsJwt.exp * 1000 - now <= 0

\* C13: when the expiry scheduler runs with a stored token whose
\* msLeft = exp * 1000 - now is <= 0, the user is signed out at once
\* (credential cleared, login view shown) and no single-shot timer is armed
ExpiredAtScheduling ==
  [][ (effectRan' /\ StoredTokenExpired) =>
        (SignedOut' /\ expiryTimer' = NoTimer) ]_vars

\* the page loaded with an expired token in storage and the first scheduler
\* run signed the user out
ExpiredTokenSignedOutAtMount ==
  /\ lastStep = "mount"
  /\ effectRan
  /\ signOuts = 1
  /\ SignedOut
  /\ expiryTimer = NoTimer

\* C14: once a login has stored a token with exp = now + 60 s and completed,
\* the single-shot timer is armed to fire at exp * 1000, that is 60000 ms
\* after the login, whether the token was in storage when the guard mounted
\* or was stored by a login after the mount
ExpiryScheduledForStoredToken ==
  (appMounted /\ loginPc = "idle" /\ IsTokenValid(lsJwt, now)) =>
    (expiryTimer.armed /\ expiryTimer.due = lsJwt.exp * 1000)

\* C15: right after a liveness tick the user is signed out whenever the
\* stored token is invalid or is gone from storage
LivenessTickSignsOut ==
  (lastStep = "tick" /\ ~IsTokenValid(lsJwt, now)) => SignedOut

\* C16: a forced sign-out in the signed-out state changes nothing; after the
\* expiry timer fires, and after a liveness tick that finds the token
\* expired, the state is the signed-out state, whichever of the two came first
ForcedSignOutIdempotent ==
  [][ /\ lastStep' = "timer" => SignedOut'
      /\ (lastStep' = "tick" /\ TokenTruthy(lsJwt) /\ ~IsTokenValid(lsJwt, now))
           => SignedOut'
      /\ (SignedOut /\ lastStep' \in {"timer", "tick"}) =>
           << lsToken, lsJwt, appToken, hist, hidx >>' =
             << lsToken, lsJwt, appToken, hist, hidx >>
      /\ LET once == Logout(Guard)
             twice == Logout(Logout(Guard))
         IN << twice.tok, twice.app, twice.hist, twice.hidx >> =
              << once.tok, once.app, once.hist, once.hidx >> ]_vars

\* the liveness tick signed the user out and the expiry timer of the same
\* token fired afterwards
TimerFiredAfterTickSignOut ==
  /\ lastStep = "timer"
  /\ signOuts = 2
  /\ logins = 0
  /\ SignedOut

\* C17: on a pageshow or popstate event with the stored token missing or
\* invalid the session is destroyed (stored credential cleared) and the login
\* view replaces the current history entry; with a valid token the event
\* signs nobody out, and a pageshow changes nothing at all
ResumeForcesSignOut ==
  [][ lastStep' \in {"pageshow", "popstate"} =>
        IF ~IsTokenValid(lsJwt, now)
          THEN /\ lsJwt' = NullToken
               /\ ~lsToken'
               /\ hist'[hidx'] = LoginPath
          ELSE /\ lsJwt' = lsJwt
               /\ lsToken' = lsToken
               /\ lastStep' = "pageshow" =>
                    << appToken, hist, hidx, expiryTimer >>' =
                      << appToken, hist, hidx, expiryTimer >> ]_vars

\* some order the order-history view shows is not settled as PAID
UnsettledShown ==
  \E i \in 1..Len(orders) :
    orders[i].status \in { "PENDING_PAYMENT", "PENDING", "PAYMENT_FAILED" }

OrderFailurePropagated ==
  [][ (view = "mounted" /\ (CreateOrderThrew \/ CreateOrderAnswered(FALSE))) =>
        /\ message'.kind = "orderError"
        /\ lastOrder' = lastOrder
        /\ cart' = cart ]_vars

\* C20: while a retry for an order is in flight its retry button is disabled,
\* so at most one retry per order is outstanding in a view, and the button is
\* enabled again when that retry completes; in the order history per order
\* (retrying[o.id]), in the Cart for its one order (loading)
RetryDisabledWhileInFlight ==
  /\ [](\A o \in TrackedIds :
          /\ moPays[o] + moRetryLoads[o] <= 1
          /\ (moView = "mounted" /\ moPays[o] + moRetryLoads[o] = 1) => retrying[o])
  /\ []((view = "mounted" /\ retryPc = "awaitPay") => loading)
  /\ [][ /\ \A o \in TrackedIds :
              ( /\ moView = "mounted"
                /\ moPays[o] + moRetryLoads[o] = 1
                /\ moPays'[o] + moRetryLoads'[o] = 0 ) => ~retrying'[o]
         /\ (view = "mounted" /\ retryPc = "awaitPay" /\ retryPc' = "idle")
              => ~loading' ]_vars

\* a retry of order 1 completed in the order history, its button was enabled
\* again and clicked a second time: that retry is in flight, the button disabled
RetriedAgainAfterCompletion ==
  /\ moView = "mounted"
  /\ moRetries = 2
  /\ moPays[1] + moRetryLoads[1] = 1
  /\ retrying[1]

\* C21: every tracked order that is not yet PAID has a retry button: in the
\* order history each shown order of status PENDING_PAYMENT, PENDING or
\* PAYMENT_FAILED, and in the Cart the last created order, whose button stays
\* until that order is observed PAID
RetryOfferedUntilPaid ==
  /\ [](moView = "mounted" =>
          \A i \in 1..Len(orders) :
            orders[i].status # "PAID" => RetryShown(orders[i].status))
  /\ [][ ( /\ view = "mounted"
           /\ ordersCreated > 0
           /\ lastOrder.set
           /\ lastOrder.id = ordersCreated
           /\ ~PollResponse(ordersCreated, "PAID")
           /\ ~\E status \in StatusCodes, text \in BodyTexts :
                 /\ CreatePayment(status, text).kind = "return"
                 /\ CreatePayment(status, text).value.result = "SUCCESS"
                 /\ RetrySettled(status, text) )
         => (view' = "mounted" => (lastOrder'.set /\ lastOrder'.id = ordersCreated')) ]_vars

\* C22: a poll tick whose fetch throws, or whose answer carries no status or a
\* status other than PAID and PAYMENT_FAILED, changes nothing: the timer stays
\* armed and the shown order, message, cart and busy flag are as before
FailedTickChangesNothing ==
  [][\A o \in OrderIds, outcome \in FetchOutcomes \ { "PAID", "PAYMENT_FAILED" } :
       PollResponse(o, outcome) =>
         UNCHANGED << message, lastOrder, pollRef, liveTimers, cart, loading >>]_vars

\* the only status fetch of an order so far threw or carried no usable
\* status: its timer is still live and the Cart shows what placeOrder left
FailedTickLeftPollRunning ==
  \E o \in 1..MaxOrders :
    /\ view = "mounted"
    /\ fetchCount[o] = 1
    /\ fetchInFlight[o] = 0
    /\ pendingReads[o] = 0
    /\ ~terminalSeen[o]
    /\ pollRef \in liveTimers
    /\ timerOrder[pollRef] = o
    /\ message = Msg("created", o)
    /\ lastOrder = LastOrder(o, "PENDING_PAYMENT")

\* C23: a liveness tick that finds the stored token still valid
\* (now < exp * 1000) signs nobody out: the stored credential, the App
\* token, the history and the expiry timer are as before
ValidTokenTickKeepsSession ==
  [][(lastStep' = "tick" /\ IsTokenValid(lsJwt, now)) =>
       UNCHANGED << lsToken, lsJwt, appToken, hist, hidx, expiryTimer, signOuts >>]_vars

\* the tick ran 30 s into a 60 s token on the Products route
ValidTokenTicked ==
  /\ lastStep = "tick"
  /\ now = PageLoadMs + ClockStepMs
  /\ IsTokenValid(lsJwt, now)
  /\ hist[hidx] = "/products"
  /\ expiryTimer.armed
  /\ signOuts = 0

\* a step that is a forced sign-out: the expiry timer fired, the liveness
\* tick found the stored token invalid, or the scheduler found it expired
\* when the page loaded
ForcedSignOutStep ==
  \/ lastStep' = "timer"
  \/ lastStep' = "tick" /\ TokenTruthy(lsJwt) /\ ~IsTokenValid(lsJwt, now)
  \/ lastStep' = "mount" /\ StoredTokenExpired

ExpiryTimerSparesValidToken ==
  [][(lastStep' = "timer" /\ IsTokenValid(lsJwt, now)) =>
       (lsJwt' = lsJwt /\ lsToken')]_vars

\* C25: a status answer that belongs to the poll of one order never cancels
\* the live poll timer of another, newer order
StaleTickSparesNewerPoll ==
  [][\A o \in OrderIds, outcome \in FetchOutcomes :
       PollResponse(o, outcome) =>
         \A t \in liveTimers :
           (timerOrder[t] # Undef /\ timerOrder[t] # o) => t \in liveTimers']_vars

\* C26: once the poll of an order has stopped at PAID or PAYMENT_FAILED, the
\* answers of its status fetches that were still in flight change neither the
\* shown order nor the message
NoChangeAfterPollingStopped ==
  [][\A o \in OrderIds, outcome \in FetchOutcomes :
       ( /\ view = "mounted"
         /\ terminalSeen[o]
         /\ TimersOf(o, liveTimers) = {}
         /\ PollResponse(o, outcome) )
       => UNCHANGED << message, lastOrder >>]_vars

\* C29: placeOrder clears the cart and the local store, records a last order
\* and starts polling only for a created order with an id; when the creation
\* fails, the cart, the local store and the poll handle are as before
OrderEffectsOnlyOnSuccess ==
  /\ [](lastOrder.set => lastOrder.id # Undef)
  /\ [](\A t \in liveTimers : timerOrder[t] # Undef)
  /\ [][ (view = "mounted" /\ (CreateOrderThrew \/ CreateOrderAnswered(FALSE))) =>
           UNCHANGED << cart, lsCart, pollRef, liveTimers >> ]_vars

\* the entries of the offline cart in local storage
LocalEntries(store) ==
  { ReadLocalCart(store)[k] : k \in 1..Len(ReadLocalCart(store)) }

\* C27: removeItem never adds to the offline cart: the entries in local
\* storage after a remove are among those that were there before it, so no
\* item the server supplied to the merged view becomes a local item
RemoveNeverAddsLocal ==
  [][\A i \in 1..Len(cart) :
       RemoveItem(i) => LocalEntries(lsCart') \subseteq LocalEntries(lsCart)]_vars

\* C30: in the order history the shown list is never overwritten by the answer
\* of a load that was issued before the load whose list is shown: of two
\* overlapping loads the one issued last decides what is shown
LaterLoadWins ==
  [][\A p \in 1..Len(moQueue), list \in OrderLists :
       ( /\ moView = "mounted"
         /\ p <= moStale
         /\ (MoLoadAnswered(p, list) \/ MoRetryLoadAnswered(p, list)) )
       => orders' = orders]_vars

\* C31: the busy flags return to false on every completion path: in the Cart
\* loading is false whenever neither placeOrder nor handleRetryFromCart is
\* running, and the step that ends either of them (order created, creation
\* answered with an error body or thrown, payment accepted, pending, rejected
\* or thrown) leaves it false; in the order history retrying[o] is false
\* whenever no handleRetry for o is running
BusyFlagsReturnToFalse ==
  /\ []((view = "mounted" /\ poPc = "idle" /\ retryPc = "idle") => ~loading)
  /\ [](\A o \in TrackedIds :
          (moView = "mounted" /\ moPays[o] + moRetryLoads[o] = 0) => ~retrying[o])
  /\ [][ ( /\ view = "mounted"
           /\ \/ poPc # "idle" /\ poPc' = "idle"
              \/ retryPc # "idle" /\ retryPc' = "idle" )
         => ~loading' ]_vars

\* the Cart is usable again after a failed attempt: an order was placed, its
\* retry ended with an error message, no handler is running and loading is
\* false
LoadingClearedAfterFailedRetry ==
  /\ view = "mounted"
  /\ lastOrder.set
  /\ poPc = "idle"
  /\ retryPc = "idle"
  /\ message.kind = "retryError"
  /\ ~loading

====
